---- MODULE Spec2Model ----
(***************************************************************************)
(* Execution-to-trade reconciliation of data_collector.py.                 *)
(*                                                                         *)
(* Prices are integers in cents (3.50 is 350), strikes are integers in     *)
(* tenths (90.0 is 900), execution times are seconds after local midnight  *)
(* of the first trading day.  A ledger line is the sequence of its twelve  *)
(* CSV cells, in the order of fieldnames.  The second part models the      *)
(* profit re-pairing of load_data in streamlit-dashboard.py.               *)
(***************************************************************************)
EXTENDS Integers, Sequences, FiniteSets, TLC

VARIABLES
    executions,   \* what ib.reqExecutions returns: the session's fills, in feed order
    strategy,     \* the strategy label handed to the collector
    csv_exists,   \* os.path.isfile(csv_path)
    csv_lines,    \* the lines of the ledger file
    returned,     \* the value returned by the last call
    called,       \* the entry point that ran last
    runs,         \* number of calls made so far
    df            \* the data frame load_data returned last (its rows, in index order)

vars == <<executions, strategy, csv_exists, csv_lines, returned, called, runs, df>>

----------------------------------------------------------------------------
(* Bounds and input domains *)

MaxFills == 3
MaxRuns == 2

SeqsUpTo(S, n) == UNION {[1..k -> S] : k \in 0..n}

Strategies == {"Unknown", "TrendStochRSI"}

NoContract == [symbol |-> "SPX", hasStrike |-> FALSE, strike |-> 0,
               hasRight |-> FALSE, right |-> ""]
Put90 == [symbol |-> "SPX", hasStrike |-> TRUE, strike |-> 900,
          hasRight |-> TRUE, right |-> "P"]
Put95 == [symbol |-> "SPX", hasStrike |-> TRUE, strike |-> 950,
          hasRight |-> TRUE, right |-> "P"]
Call100 == [symbol |-> "SPY", hasStrike |-> TRUE, strike |-> 1005,
            hasRight |-> TRUE, right |-> "C"]
Stock == [symbol |-> "SPY", hasStrike |-> FALSE, strike |-> 0,
          hasRight |-> TRUE, right |-> ""]

Contracts == {NoContract, Put90, Put95, Call100, Stock}
Times == {34200, 57601}
Sides == {"SLD", "BOT"}
Prices == {-350, 100, 150, 500}

\* fills of one order that differ in time, side and price
PriceFills == [permId : {1}, time : Times, side : Sides, price : Prices,
               contract : {Put90}]
\* fills of one order that differ in time and instrument
ContractFills == [permId : {1}, time : Times, side : {"SLD"}, price : {100},
                  contract : Contracts]
\* fills of several orders
OrderFills == [permId : {1, 2, 3}, time : Times, side : {"SLD"}, price : {-350},
               contract : {Put90}]

Inputs == SeqsUpTo(PriceFills, MaxFills) \cup SeqsUpTo(ContractFills, MaxFills)
              \cup SeqsUpTo(OrderFills, MaxFills)

\* the fill sets a session goes through when the collectors run repeatedly
SessionFill(p, t, sd, pr) ==
    [permId |-> p, time |-> t, side |-> sd, price |-> pr, contract |-> Put90]

SessionInputs ==
    {<<>>,
     <<SessionFill(1, 34200, "SLD", -350)>>,
     <<SessionFill(1, 34200, "SLD", -350), SessionFill(1, 57601, "BOT", 100)>>,
     <<SessionFill(1, 34200, "SLD", 500), SessionFill(2, 34200, "BOT", 150)>>}

----------------------------------------------------------------------------
(* Helpers of the collector *)

Abs(x) == IF x < 0 THEN -x ELSE x

Multiplier == 100

\* f'{x:.2f}' of an amount of c cents
Fmt2(c) ==
    LET a == Abs(c)
    IN  (IF c < 0 THEN "-" ELSE "") \o ToString(a \div 100) \o "."
            \o (IF a % 100 < 10 THEN "0" ELSE "") \o ToString(a % 100)

TwoDigits(n) == (IF n < 10 THEN "0" ELSE "") \o ToString(n)

\* execution.time.astimezone().strftime('%Y-%m-%d')
StrfDate(t) == "2024-01-0" \o ToString(2 + t \div 86400)

\* execution.time.astimezone().strftime('%Y-%m-%d %H:%M:%S')
StrfTime(t) ==
    StrfDate(t) \o " " \o TwoDigits((t % 86400) \div 3600) \o ":"
        \o TwoDigits((t % 3600) \div 60) \o ":" \o TwoDigits(t % 60)

\* int(e.contract.strike) of a strike given in tenths
IntStrike(s) == s \div 10

RECURSIVE SumPrices(_)
SumPrices(es) ==
    IF es = <<>> THEN 0 ELSE es[1].price + SumPrices(Tail(es))

\* the distinct values of a sequence, in order of first occurrence
\* (the key order of a dict filled by a loop)
RECURSIVE Keys(_)
Keys(s) ==
    IF s = <<>> THEN <<>>
    ELSE LET front == SubSeq(s, 1, Len(s) - 1)
             k == Keys(front)
             x == s[Len(s)]
         IN  IF \E i \in DOMAIN k : k[i] = x THEN k ELSE Append(k, x)

\* a variant that opens a group per execution instead of per permId
trades_by_perm_id_each(execs) ==
    [k \in DOMAIN execs |-> [perm_id |-> execs[k].permId, execs |-> <<execs[k]>>]]

\* trades_by_perm_id: one <<perm_id, execs>> entry per permId, in dict order
trades_by_perm_id(execs) ==
    LET ids == Keys([i \in DOMAIN execs |-> execs[i].permId])
    IN  [k \in DOMAIN ids |->
            [perm_id |-> ids[k],
             execs |-> SelectSeq(execs, LAMBDA e : e.permId = ids[k])]]

\* execs.sort(key=lambda x: x.execution.time): a stable sort
RECURSIVE SortByTime(_)
SortByTime(es) ==
    IF es = <<>> THEN <<>>
    ELSE LET front == SortByTime(SubSeq(es, 1, Len(es) - 1))
             e == es[Len(es)]
             k == Cardinality({i \in DOMAIN front : front[i].time <= e.time})
         IN  SubSeq(front, 1, k) \o <<e>> \o SubSeq(front, k + 1, Len(front))

\* a variant that never merges executions with equal times into one bucket
time_groups_each(execs) == [k \in DOMAIN execs |-> <<execs[k]>>]

\* time_groups = list(times.values())
time_groups(execs) ==
    LET ts == Keys([i \in DOMAIN execs |-> execs[i].time])
    IN  [k \in DOMAIN ts |-> SelectSeq(execs, LAMBDA e : e.time = ts[k])]

----------------------------------------------------------------------------
(* Trade reconstruction: one row per permId group *)

fieldnames ==
    <<"date", "trade_type", "symbol", "strikes", "entry_action", "entry_time",
      "entry_price", "exit_action", "exit_price", "profit", "status", "strategy">>

\* csv.DictWriter.writerow: the cells of a dict in the order of fieldnames
writerow(d) == [i \in DOMAIN fieldnames |-> d[fieldnames[i]]]

\* the cell of a ledger line under a column name
Cell(line, name) == line[CHOOSE i \in DOMAIN fieldnames : fieldnames[i] = name]

\* a variant that takes the first execution of a bucket holding a combo
combo_exec_first(opening_execs) ==
    IF \E i \in DOMAIN opening_execs : opening_execs[i].price < 0 THEN 1 ELSE 0

\* index of the combo execution of the opening bucket (the loop keeps the last
\* execution with a negative price), 0 for None
combo_exec(opening_execs) ==
    LET neg == {i \in DOMAIN opening_execs : opening_execs[i].price < 0}
    IN  IF neg = {} THEN 0 ELSE CHOOSE i \in neg : \A j \in neg : j <= i

leg_execs(opening_execs) == SelectSeq(opening_execs, LAMBDA e : e.price >= 0)

\* a variant with the two sides swapped
FallbackEntryAction_swapped(credit_received, debit_paid) ==
    IF credit_received > debit_paid THEN "SLD" ELSE "BOT"

\* entry_action of the fallback path (no combo execution)
FallbackEntryAction(credit_received, debit_paid) ==
    IF credit_received > debit_paid THEN "BOT" ELSE "SLD"

\* contract, execution, entry_price and entry_action of the opening bucket
Entry(opening_execs) ==
    LET c == combo_exec(opening_execs)
    IN  IF c # 0
        THEN [contract |-> opening_execs[c].contract,
              time |-> opening_execs[c].time,
              entry_price |-> Abs(opening_execs[c].price),
              entry_action |-> opening_execs[c].side]
        ELSE LET legs == leg_execs(opening_execs)
                 sold_legs == SelectSeq(legs, LAMBDA e : e.side = "SLD")
                 bought_legs == SelectSeq(legs, LAMBDA e : e.side = "BOT")
                 credit_received == SumPrices(sold_legs)
                 debit_paid == SumPrices(bought_legs)
             IN  [contract |-> opening_execs[1].contract,
                  time |-> opening_execs[1].time,
                  entry_price |-> Abs(credit_received - debit_paid),
                  entry_action |-> FallbackEntryAction(credit_received, debit_paid)]

\* strikes.sort() on a list of integers
RECURSIVE SortInts(_)
SortInts(s) ==
    IF s = <<>> THEN <<>>
    ELSE LET front == SortInts(SubSeq(s, 1, Len(s) - 1))
             x == s[Len(s)]
             k == Cardinality({i \in DOMAIN front : front[i] <= x})
         IN  SubSeq(front, 1, k) \o <<x>> \o SubSeq(front, k + 1, Len(front))

\* the strikes list: int(strike) of every execution of the opening bucket that has one
strikes(opening_execs) ==
    LET with == SelectSeq(opening_execs, LAMBDA e : e.contract.hasStrike)
    IN  SortInts([i \in DOMAIN with |-> IntStrike(with[i].contract.strike)])

strikes_str(opening_execs) ==
    LET s == strikes(opening_execs)
    IN  IF Len(s) >= 2 THEN ToString(s[1]) \o "/" \o ToString(s[2])
        ELSE IF Len(s) = 1 THEN ToString(s[1])
        ELSE "unknown"

trade_type(opening_execs) ==
    LET rights == {opening_execs[i].contract.right :
                      i \in {j \in DOMAIN opening_execs : opening_execs[j].contract.hasRight}}
    IN  IF "P" \in rights THEN "Bull Put"
        ELSE IF "C" \in rights THEN "Bear Call"
        ELSE "unknown"

\* index of the closing combo: the first SLD execution with a negative price, 0 for None
closing_combo(closing_execs) ==
    LET hit == {i \in DOMAIN closing_execs :
                   closing_execs[i].side = "SLD" /\ closing_execs[i].price < 0}
    IN  IF hit = {} THEN 0 ELSE CHOOSE i \in hit : \A j \in hit : i <= j

\* a variant that takes the magnitude, as the entry path does
FallbackExitPrice_abs(closing_credit, closing_debit) ==
    Abs(closing_debit - closing_credit)

\* exit_price of the fallback path (no closing combo)
FallbackExitPrice(closing_credit, closing_debit) ==
    closing_debit - closing_credit

\* exit_price and exit_action of the closing bucket
Exit(closing_execs) ==
    LET c == closing_combo(closing_execs)
    IN  IF c # 0
        THEN [exit_price |-> Abs(closing_execs[c].price), exit_action |-> "SLD"]
        ELSE LET closing_sold ==
                     SelectSeq(closing_execs, LAMBDA e : e.side = "SLD" /\ e.price > 0)
                 closing_bought ==
                     SelectSeq(closing_execs, LAMBDA e : e.side = "BOT" /\ e.price > 0)
                 closing_credit == SumPrices(closing_sold)
                 closing_debit == SumPrices(closing_bought)
             IN  [exit_price |-> FallbackExitPrice(closing_credit, closing_debit),
                  exit_action |-> IF closing_credit > closing_debit THEN "SLD" ELSE "BOT"]

\* profit (in cents) of a closed trade
Profit(entry_price, exit_price) == (entry_price - exit_price) * Multiplier

\* f'{exit_price:.2f}' if exit_price else '' (has = FALSE stands for None)
ExitPriceCell(has, exit_price) ==
    IF has /\ exit_price # 0 THEN Fmt2(exit_price) ELSE ""

\* status of a group from the number of its time buckets
Status(n_groups) == IF n_groups > 1 THEN "closed" ELSE "open"

\* the row written for one permId group (the body of the loop over trades_by_perm_id)
TradeRow(execs, strat) ==
    LET groups == time_groups(SortByTime(execs))
        opening_execs == groups[1]
        en == Entry(opening_execs)
        closed == Status(Len(groups)) = "closed"
        ex == IF closed THEN Exit(groups[2])
              ELSE [exit_price |-> 0, exit_action |-> ""]
        profit == IF closed THEN Profit(en.entry_price, ex.exit_price) ELSE 0
    IN  writerow([date |-> StrfDate(en.time),
                  trade_type |-> trade_type(opening_execs),
                  symbol |-> en.contract.symbol,
                  strikes |-> strikes_str(opening_execs),
                  entry_action |-> en.entry_action,
                  entry_time |-> StrfTime(en.time),
                  entry_price |-> Fmt2(en.entry_price),
                  exit_action |-> ex.exit_action,
                  exit_price |-> ExitPriceCell(closed, ex.exit_price),
                  profit |-> Fmt2(profit),
                  status |-> Status(Len(groups)),
                  strategy |-> strat])

\* the rows of one run, in the order they are written
TradeRows(execs, strat) ==
    LET by == trades_by_perm_id(execs)
    IN  [k \in DOMAIN by |-> TradeRow(by[k].execs, strat)]

\* the row collect_daily_results_simple writes for one execution
SimpleRow(e, strat) ==
    LET is_entry == e.side = "SLD"
    IN  writerow([date |-> StrfDate(e.time),
                  trade_type |-> "spread_leg",
                  symbol |-> e.contract.symbol,
                  strikes |-> IF e.contract.hasStrike
                              THEN ToString(IntStrike(e.contract.strike)) ELSE "",
                  entry_action |-> IF is_entry THEN e.side ELSE "",
                  entry_time |-> IF is_entry THEN StrfTime(e.time) ELSE "",
                  entry_price |-> IF is_entry THEN Fmt2(e.price) ELSE "",
                  exit_action |-> IF ~is_entry THEN e.side ELSE "",
                  exit_price |-> IF ~is_entry THEN Fmt2(e.price) ELSE "",
                  profit |-> "",
                  status |-> "executed",
                  strategy |-> strat])

\* a variant that writes the header on every run
AppendToLedger_header(exists, lines, rows) ==
    lines \o <<fieldnames>> \o rows

\* a variant that skips the rows the ledger already holds
AppendToLedger_dedup(exists, lines, rows) ==
    lines \o (IF ~exists THEN <<fieldnames>> ELSE <<>>)
          \o SelectSeq(rows, LAMBDA r : \A i \in DOMAIN lines : lines[i] # r)

\* open(csv_path, 'a') followed by the header (only for a new file) and the rows
AppendToLedger(exists, lines, rows) ==
    lines \o (IF ~exists THEN <<fieldnames>> ELSE <<>>) \o rows

----------------------------------------------------------------------------
(* Operations *)

\* collect_daily_results(ib, csv_path, strategy)
collect_daily_results ==
    /\ runs < MaxRuns
    /\ runs' = runs + 1
    /\ called' = "collect_daily_results"
    /\ IF executions = <<>>
       THEN /\ returned' = 0
            /\ UNCHANGED <<csv_exists, csv_lines>>
       ELSE LET rows == TradeRows(executions, strategy)
            IN  /\ csv_lines' = AppendToLedger(csv_exists, csv_lines, rows)
                /\ csv_exists' = TRUE
                /\ returned' = Len(rows)
    /\ UNCHANGED <<executions, strategy, df>>

\* collect_daily_results_simple(ib, csv_path, strategy)
collect_daily_results_simple ==
    /\ runs < MaxRuns
    /\ runs' = runs + 1
    /\ called' = "collect_daily_results_simple"
    /\ IF executions = <<>>
       THEN /\ returned' = 0
            /\ UNCHANGED <<csv_exists, csv_lines>>
       ELSE LET rows == [i \in DOMAIN executions |-> SimpleRow(executions[i], strategy)]
            IN  /\ csv_lines' = AppendToLedger(csv_exists, csv_lines, rows)
                /\ csv_exists' = TRUE
                /\ returned' = Len(executions)
    /\ UNCHANGED <<executions, strategy, df>>

\* the broker's answer to reqExecutions changes between two calls
reqExecutions ==
    /\ runs < MaxRuns
    /\ \E ex \in SessionInputs : executions' = ex /\ executions' # executions
    /\ UNCHANGED <<strategy, csv_exists, csv_lines, returned, called, runs, df>>

\* repeated calls of the grouped collector on one session's fills
Init ==
    /\ executions \in Inputs
    /\ strategy = "Unknown"
    /\ csv_exists = FALSE
    /\ csv_lines = <<>>
    /\ returned = 0
    /\ called = "none"
    /\ runs = 0
    /\ df = <<>>

Next == collect_daily_results

Spec == Init /\ [][Next]_vars

\* calls of both collectors while the session's fills change
InitRuns ==
    /\ executions = <<>>
    /\ strategy \in Strategies
    /\ csv_exists = FALSE
    /\ csv_lines = <<>>
    /\ returned = 0
    /\ called = "none"
    /\ runs = 0
    /\ df = <<>>

NextRuns ==
    \/ reqExecutions
    \/ collect_daily_results
    \/ collect_daily_results_simple

SpecRuns == InitRuns /\ [][NextRuns]_vars

----------------------------------------------------------------------------
(* Presentation side: load_data of streamlit-dashboard.py                   *)
(*                                                                          *)
(* A parsed cell is <<v>> for a value and <<>> for NaN / NaT.  A data frame *)
(* is the sequence of its rows; the field line is the row's index label.    *)

MaxRows == 4

NaN == <<>>

DashFill(t, sd, pr, c) ==
    [permId |-> 1, time |-> t, side |-> sd, price |-> pr, contract |-> c]

\* rows the collectors write: open trades of one instrument on one day, a trade
\* of the next day, a trade on other strikes, a closed trade with a stored
\* profit, and a row of the simple collector
LedgerRows ==
    {TradeRow(<<DashFill(34200, "BOT", -100, Put90)>>, "Unknown"),
     TradeRow(<<DashFill(57601, "BOT", -350, Put90)>>, "Unknown"),
     TradeRow(<<DashFill(34200, "SLD", -350, Put90)>>, "Unknown"),
     TradeRow(<<DashFill(34200, "SLD", -100, Put90)>>, "Unknown"),
     TradeRow(<<DashFill(57601, "SLD", -100, Put90)>>, "Unknown"),
     TradeRow(<<DashFill(86400 + 34200, "SLD", -350, Put90)>>, "Unknown"),
     TradeRow(<<DashFill(34200, "BOT", -100, Put95)>>, "Unknown"),
     TradeRow(<<DashFill(34200, "SLD", -350, Put90),
                DashFill(57601, "SLD", 100, Put90)>>, "Unknown"),
     SimpleRow(DashFill(34200, "BOT", 100, NoContract), "Unknown")}

Ledgers == {<<fieldnames>> \o rows : rows \in SeqsUpTo(LedgerRows, MaxRows)}

\* the amounts (in cents) the numeric cells of these ledgers hold
Amounts == {50 * k : k \in -20..20} \cup {5000 * k : k \in -10..10}

\* the execution times the time cells of these ledgers hold
AllTimes == Times \cup {86400 + t : t \in Times}

\* the amount written as a two-decimal text, the time written as a time text,
\* the day written as a date text
FloatOf == [s \in {Fmt2(c) : c \in Amounts} |-> CHOOSE c \in Amounts : Fmt2(c) = s]
TimeOf == [s \in {StrfTime(t) : t \in AllTimes} |-> CHOOSE t \in AllTimes : StrfTime(t) = s]
DayOf ==
    [s \in {StrfDate(t) : t \in AllTimes} |->
        (CHOOSE t \in AllTimes : StrfDate(t) = s) \div 86400]

\* read_csv's float of a numeric cell
ParseFloat(s) == IF s = "" THEN NaN ELSE <<FloatOf[s]>>

\* pd.to_datetime(df['entry_time'], errors='coerce')
to_datetime(s) == IF s \in DOMAIN TimeOf THEN <<TimeOf[s]>> ELSE NaN

\* pd.to_datetime(df['date'], errors='coerce'): the day number
to_datetime_date(s) == IF s \in DOMAIN DayOf THEN <<DayOf[s]>> ELSE NaN

\* pd.read_csv followed by the two to_datetime conversions
read_csv(lines) ==
    [i \in 1..(Len(lines) - 1) |->
        LET l == lines[i + 1]
        IN  [line |-> i,
             date |-> to_datetime_date(Cell(l, "date")),
             trade_type |-> Cell(l, "trade_type"),
             symbol |-> Cell(l, "symbol"),
             strikes |-> Cell(l, "strikes"),
             entry_action |-> Cell(l, "entry_action"),
             entry_time |-> to_datetime(Cell(l, "entry_time")),
             entry_price |-> ParseFloat(Cell(l, "entry_price")),
             profit |-> ParseFloat(Cell(l, "profit"))]]

\* df.dropna(subset=['date'])
dropna(d) == SelectSeq(d, LAMBDA r : r.date # NaN)

\* a variant that keeps the stored profit
ResetProfit_keep(d) == d

\* df['profit'] = 0.0
ResetProfit(d) == [i \in DOMAIN d |-> [d[i] EXCEPT !.profit = <<0>>]]

\* groupby drops the rows with a missing key (an empty text cell is NaN)
HasKey(r) == r.trade_type # "" /\ r.symbol # "" /\ r.strikes # ""

\* two rows of one group of df.groupby(['date', 'trade_type', 'symbol', 'strikes'])
SameGroup(a, b) ==
    /\ HasKey(a) /\ HasKey(b)
    /\ a.date = b.date /\ a.trade_type = b.trade_type
    /\ a.symbol = b.symbol /\ a.strikes = b.strikes

\* order of two entry_time values under sort_values (NaT last)
TimeLE(a, b) == b = NaN \/ (a # NaN /\ a[1] <= b[1])

\* the elements of a set of index labels, in increasing order
RECURSIVE IndexOrder(_)
IndexOrder(S) ==
    IF S = {} THEN <<>>
    ELSE LET m == CHOOSE x \in S : \A y \in S : x <= y
         IN  <<m>> \o IndexOrder(S \ {m})

\* a variant that leaves the rows in index order
sort_values_none(d, S) == {IndexOrder(S)}

\* group.sort_values('entry_time'): the orders of the rows S by entry_time.  The
\* default sort is not stable, so rows with equal times come in any order.
RECURSIVE sort_values(_, _)
sort_values(d, S) ==
    IF S = {} THEN {<<>>}
    ELSE UNION {{<<i>> \o o : o \in sort_values(d, S \ {i})} :
                   i \in {j \in S : \A k \in S : TimeLE(d[j].entry_time, d[k].entry_time)}}

\* profit = (bot_price - sld_price) * 100
PairMultiplier == 100

PairProfit(bot_price, sld_price) ==
    IF bot_price = NaN \/ sld_price = NaN THEN NaN
    ELSE <<(bot_price[1] - sld_price[1]) * PairMultiplier>>

\* trade_groups: the sets of index labels of the groups
trade_groups(d) ==
    {{j \in DOMAIN d : SameGroup(d[j], d[i])} : i \in {k \in DOMAIN d : HasKey(d[k])}}

\* the body of the loop over trade_groups for one group, given in sorted order:
\* the frame with the profit of the paired rows set
PairGroup(d, group) ==
    LET bot_rows == SelectSeq(group, LAMBDA j : d[j].entry_action = "BOT")
        sld_rows == SelectSeq(group, LAMBDA j : d[j].entry_action = "SLD")
        num_pairs == IF Len(bot_rows) <= Len(sld_rows) THEN Len(bot_rows) ELSE Len(sld_rows)
    IN  [i \in DOMAIN d |->
            IF \E k \in 1..num_pairs : bot_rows[k] = i \/ sld_rows[k] = i
            THEN LET k == CHOOSE x \in 1..num_pairs : bot_rows[x] = i \/ sld_rows[x] = i
                 IN  [d[i] EXCEPT !.profit =
                         PairProfit(d[bot_rows[k]].entry_price, d[sld_rows[k]].entry_price)]
            ELSE d[i]]

\* the loop over the groups G: the frames it can end with
RECURSIVE PairGroups(_, _)
PairGroups(d, G) ==
    IF G = {} THEN {d}
    ELSE LET g == CHOOSE x \in G : TRUE
         IN  UNION {PairGroups(x, G \ {g}) :
                       x \in {PairGroup(d, group) : group \in sort_values(d, g)}}

\* load_data(), which st.cache_data runs once: a later call returns the frame
\* of the first
load_data ==
    /\ called # "load_data"
    /\ csv_exists
    /\ \E d \in {ResetProfit(dropna(read_csv(csv_lines)))} :
          df' \in PairGroups(d, trade_groups(d))
    /\ called' = "load_data"
    /\ UNCHANGED <<executions, strategy, csv_exists, csv_lines, returned, runs>>

\* the dashboard loading a ledger the collectors wrote
InitDash ==
    /\ executions = <<>>
    /\ strategy = "Unknown"
    /\ csv_exists = TRUE
    /\ csv_lines \in Ledgers
    /\ returned = 0
    /\ called = "none"
    /\ runs = 0
    /\ df = <<>>

NextDash == load_data

SpecDash == InitDash /\ [][NextDash]_vars

----------------------------------------------------------------------------
(* Vocabulary of the properties: the fill set of the last call, described   *)
(* without the collector's own helpers                                      *)

Grouped == called = "collect_daily_results" /\ executions # <<>>

PermIdSet == {executions[i].permId : i \in DOMAIN executions}

FillsOf(p) == {i \in DOMAIN executions : executions[i].permId = p}

MinOf(S) == CHOOSE x \in S : \A y \in S : x <= y

TimesOf(p) == {executions[i].time : i \in FillsOf(p)}

\* the fills of the earliest time bucket of an order
OpeningOf(p) == {i \in FillsOf(p) : executions[i].time = MinOf(TimesOf(p))}

HasClosing(p) == Cardinality(TimesOf(p)) > 1

\* the fills of the second time bucket of an order
ClosingOf(p) ==
    LET later == TimesOf(p) \ {MinOf(TimesOf(p))}
    IN  {i \in FillsOf(p) : executions[i].time = MinOf(later)}

\* position of an order's row among the rows of one run
RowIndex(p) ==
    Cardinality({q \in PermIdSet : MinOf(FillsOf(q)) <= MinOf(FillsOf(p))})

\* the row the last run wrote for an order
WrittenRow(p) == csv_lines[Len(csv_lines) - Cardinality(PermIdSet) + RowIndex(p)]

RECURSIVE SumOver(_)
SumOver(S) ==
    IF S = {} THEN 0
    ELSE LET i == CHOOSE x \in S : TRUE
         IN  executions[i].price + SumOver(S \ {i})

Credit(S) == SumOver({i \in S : executions[i].side = "SLD"})
Debit(S) == SumOver({i \in S : executions[i].side = "BOT"})

Combos(S) == {i \in S : executions[i].price < 0}

----------------------------------------------------------------------------
(* Properties *)

\* C1: every order whose fills all share one timestamp gets a row with status
\* 'open', empty exit_action, empty exit_price and profit '0.00', whatever the
\* prices and sides of its fills.
C1_SingleBucketOpen ==
    Grouped =>
        \A p \in PermIdSet :
            Cardinality(TimesOf(p)) = 1 =>
                /\ Cell(WrittenRow(p), "status") = "open"
                /\ Cell(WrittenRow(p), "exit_action") = ""
                /\ Cell(WrittenRow(p), "exit_price") = ""
                /\ Cell(WrittenRow(p), "profit") = "0.00"

\* an order of several fills with different prices and sides, all at one time
C1_Witness ==
    /\ Grouped
    /\ \E p \in PermIdSet :
          /\ Cardinality(TimesOf(p)) = 1
          /\ \E i, j \in FillsOf(p) :
                /\ executions[i].side # executions[j].side
                /\ executions[i].price # executions[j].price
          /\ Cell(WrittenRow(p), "status") = "open"

\* C2: when the opening bucket holds one combo fill (negative price) next to any
\* number of non-negative leg fills, entry_price is the magnitude of the combo
\* price and entry_action is the combo's side, whatever the legs are.
C2_ComboEntry ==
    Grouped =>
        \A p \in PermIdSet :
            \A c \in Combos(OpeningOf(p)) :
                Combos(OpeningOf(p)) = {c} =>
                    /\ Cell(WrittenRow(p), "entry_price") = Fmt2(Abs(executions[c].price))
                    /\ Cell(WrittenRow(p), "entry_action") = executions[c].side

\* a SELL combo at -3.50 after legs at 5.00 and 1.50 gives SLD at 3.50
C2_Witness ==
    /\ Grouped
    /\ \E p \in PermIdSet :
          /\ \E c, i, j \in OpeningOf(p) :
                /\ executions[c].price = -350 /\ executions[c].side = "SLD"
                /\ executions[i].price = 500 /\ executions[i].side = "BOT"
                /\ executions[j].price = 150
                /\ i < c
          /\ Cell(WrittenRow(p), "entry_action") = "SLD"
          /\ Cell(WrittenRow(p), "entry_price") = "3.50"

\* C3 as stated: with no combo fill in the opening bucket and credit > debit,
\* entry_action is SLD and entry_price is credit - debit.
C3_AsStated ==
    Grouped =>
        \A p \in PermIdSet :
            (Combos(OpeningOf(p)) = {} /\ Credit(OpeningOf(p)) > Debit(OpeningOf(p))) =>
                /\ Cell(WrittenRow(p), "entry_action") = "SLD"
                /\ Cell(WrittenRow(p), "entry_price")
                       = Fmt2(Credit(OpeningOf(p)) - Debit(OpeningOf(p)))

\* C3, amended: with no combo fill in the opening bucket and credit > debit,
\* entry_action is BOT and entry_price is credit - debit.
C3_FallbackEntry ==
    Grouped =>
        \A p \in PermIdSet :
            (Combos(OpeningOf(p)) = {} /\ Credit(OpeningOf(p)) > Debit(OpeningOf(p))) =>
                /\ Cell(WrittenRow(p), "entry_action") = "BOT"
                /\ Cell(WrittenRow(p), "entry_price")
                       = Fmt2(Credit(OpeningOf(p)) - Debit(OpeningOf(p)))

\* a SELL leg at 5.00 and a BUY leg at 1.50 give BOT at 3.50
C3_Witness ==
    /\ Grouped
    /\ \E p \in PermIdSet :
          /\ \E i, j \in OpeningOf(p) :
                /\ OpeningOf(p) = {i, j}
                /\ executions[i].price = 500 /\ executions[i].side = "SLD"
                /\ executions[j].price = 150 /\ executions[j].side = "BOT"
          /\ Cell(WrittenRow(p), "entry_action") = "BOT"
          /\ Cell(WrittenRow(p), "entry_price") = "3.50"

\* the entry price (in cents) a row shows, read back from its cell
EntryCents(row) ==
    CHOOSE e \in {50 * k : k \in 0..(10 * (MaxFills + 1))} :
        Fmt2(e) = Cell(row, "entry_price")

\* an order whose closing bucket is one SELL fill with a positive price
SingleSellClose(p) ==
    /\ HasClosing(p)
    /\ \E i \in ClosingOf(p) :
          /\ ClosingOf(p) = {i}
          /\ executions[i].side = "SLD"
          /\ executions[i].price > 0

ClosePrice(p) == executions[MinOf(ClosingOf(p))].price

\* C4 as stated: with entry price e and a closing bucket that is one SELL fill
\* with positive price p, the written profit is (e - p) * 100.
C4_AsStated ==
    Grouped =>
        \A p \in PermIdSet :
            SingleSellClose(p) =>
                Cell(WrittenRow(p), "profit")
                    = Fmt2((EntryCents(WrittenRow(p)) - ClosePrice(p)) * 100)

\* C4, amended: with entry price e and a closing bucket that is one SELL fill
\* with positive price p, the fallback yields exit_price -p and exit_action SLD,
\* and the written profit is (e + p) * 100.
C4_SingleSellCloseProfit ==
    Grouped =>
        \A p \in PermIdSet :
            SingleSellClose(p) =>
                /\ Cell(WrittenRow(p), "profit")
                       = Fmt2((EntryCents(WrittenRow(p)) + ClosePrice(p)) * 100)
                /\ Cell(WrittenRow(p), "exit_price") = Fmt2(-ClosePrice(p))
                /\ Cell(WrittenRow(p), "exit_action") = "SLD"
                /\ Cell(WrittenRow(p), "status") = "closed"

\* entry at 3.50 closed by one SELL fill at 1.00: the written profit is 450.00
C4_Witness ==
    /\ Grouped
    /\ \E p \in PermIdSet :
          /\ SingleSellClose(p)
          /\ ClosePrice(p) = 100
          /\ Cell(WrittenRow(p), "entry_price") = "3.50"
          /\ Cell(WrittenRow(p), "profit") = "450.00"

\* the data lines of the ledger
DataLines == {i \in DOMAIN csv_lines : csv_lines[i] # fieldnames}

\* C5 as stated: a row has an empty exit_price exactly when its status is 'open';
\* every 'closed' row carries an exit_price string.
C5_AsStated ==
    Grouped =>
        \A i \in DataLines :
            /\ Cell(csv_lines[i], "status") = "closed" => Cell(csv_lines[i], "exit_price") # ""
            /\ Cell(csv_lines[i], "status") = "open" => Cell(csv_lines[i], "exit_price") = ""

\* the lines of the ledger that hold the header
HeaderLines == {i \in DOMAIN csv_lines : csv_lines[i] = fieldnames}

\* C6: over any sequence of runs of both collectors from an absent file, the
\* header is written exactly once, as the first line, by the run that creates
\* the file; no header while the file is absent and none added afterwards.
C6_HeaderOnce ==
    IF csv_exists THEN HeaderLines = {1} ELSE csv_lines = <<>>

\* a ledger created by one run and extended by a later run of the other collector
C6_Witness ==
    /\ csv_exists
    /\ runs >= 2
    /\ HeaderLines = {1}
    /\ \E i, j \in DataLines :
          /\ i < j
          /\ Cell(csv_lines[i], "status") = "executed"
          /\ Cell(csv_lines[j], "status") \in {"open", "closed"}

\* C7: the grouped collector only appends and never deduplicates: after n runs
\* on the same non-empty fill set the ledger is the header followed by n copies
\* of the rows of the first run, the earlier copies unchanged.
C7_AppendOnly ==
    Grouped =>
        LET n == Cardinality(PermIdSet)
        IN  /\ Len(csv_lines) = 1 + runs * n
            /\ csv_lines[1] = fieldnames
            /\ \A r \in 0..(runs - 1) : \A k \in 1..n :
                  csv_lines[1 + r * n + k] = csv_lines[1 + k]

\* two runs on a fill set of two different trades: each row is there twice
C7_Witness ==
    /\ Grouped
    /\ runs = 2
    /\ Cardinality(PermIdSet) = 2
    /\ Len(csv_lines) = 5
    /\ csv_lines[2] # csv_lines[3]
    /\ csv_lines[4] = csv_lines[2]
    /\ csv_lines[5] = csv_lines[3]

\* C8: the value returned by the grouped collector is the number of data rows
\* the run appended, which is the number of distinct permIds of the fill set;
\* on the empty fill set it returns 0 and leaves the ledger untouched.
C8_ReturnCount ==
    [][called' = "collect_daily_results" =>
          /\ returned' = Cardinality(PermIdSet)
          /\ Cardinality(DataLines') - Cardinality(DataLines) = returned'
          /\ Len(csv_lines') - Len(csv_lines) = returned' + Cardinality(HeaderLines' \ HeaderLines)
          /\ executions = <<>> =>
                /\ returned' = 0
                /\ csv_lines' = csv_lines
                /\ csv_exists' = csv_exists
                /\ ~csv_exists']_vars

\* a run on three fills of two orders returns 2 and has appended two rows
C8_Witness ==
    /\ Grouped
    /\ runs = 1
    /\ Len(executions) = 3
    /\ Cardinality(PermIdSet) = 2
    /\ returned = 2
    /\ Cardinality(DataLines) = 2

\* the integer strikes carried by the fills of an order's opening bucket
StrikeValues(p) ==
    {IntStrike(executions[i].contract.strike) :
        i \in {j \in OpeningOf(p) : executions[j].contract.hasStrike}}

MaxOf(S) == CHOOSE x \in S : \A y \in S : y <= x

\* C9 as stated: two distinct strike values a < b in the opening bucket render
\* as 'a/b' whatever the number of fills per strike, one value renders as that
\* value, no strike renders as 'unknown'.
C9_AsStated ==
    Grouped =>
        \A p \in PermIdSet :
            LET v == StrikeValues(p)
                cell == Cell(WrittenRow(p), "strikes")
            IN  /\ Cardinality(v) = 2 =>
                      cell = ToString(MinOf(v)) \o "/" \o ToString(MaxOf(v))
                /\ Cardinality(v) = 1 => cell = ToString(MinOf(v))
                /\ Cardinality(v) = 0 => cell = "unknown"

\* the bijections of the positions of the fill set
Orderings ==
    {f \in [DOMAIN executions -> DOMAIN executions] :
        \A i, j \in DOMAIN executions : f[i] = f[j] => i = j}

Reordered(f) == [i \in DOMAIN executions |-> executions[f[i]]]

\* C10 as stated: every ordering of the same fills yields the same row for
\* every permId.
C10_AsStated ==
    Grouped =>
        \A f \in Orderings : \A p \in PermIdSet :
            TradeRow(SelectSeq(Reordered(f), LAMBDA e : e.permId = p), strategy)
                = WrittenRow(p)

----------------------------------------------------------------------------
(* Properties of load_data, stated on the cells of the ledger lines *)

Loaded == called = "load_data"

\* the ledger line of index label i
LineOf(i) == csv_lines[i + 1]

\* the (date, trade_type, symbol, strikes) group of a ledger line
GroupKey(i) ==
    <<Cell(LineOf(i), "date"), Cell(LineOf(i), "trade_type"),
      Cell(LineOf(i), "symbol"), Cell(LineOf(i), "strikes")>>

ActionOf(i) == Cell(LineOf(i), "entry_action")

\* text of an amount of cents as the ledger writes it
PriceText(c) ==
    ToString(c \div 100) \o "." \o (IF c % 100 < 10 THEN "0" ELSE "") \o ToString(c % 100)

\* the amount a price text stands for, the time a time text stands for
PriceOfText ==
    [s \in {PriceText(50 * k) : k \in 0..10} |->
        CHOOSE c \in {50 * k : k \in 0..10} : PriceText(c) = s]
TimeOfText ==
    [s \in {StrfTime(t) : t \in AllTimes} |-> CHOOSE t \in AllTimes : StrfTime(t) = s]

\* entry price and entry time of a BOT or SLD line, read from its cells
PriceOf(i) == PriceOfText[Cell(LineOf(i), "entry_price")]
EntryTimeOf(i) == TimeOfText[Cell(LineOf(i), "entry_time")]

\* the lines of the group of line i with one entry_action
SideOf(i, a) ==
    {j \in 1..(Len(csv_lines) - 1) : GroupKey(j) = GroupKey(i) /\ ActionOf(j) = a}

\* rank is a chronological numbering (1, 2, ...) of the lines S: a bijection
\* onto 1..|S| that never numbers a later line before an earlier one
Chronological(rank, S) ==
    /\ \A j \in S : rank[j] \in 1..Cardinality(S)
    /\ \A j, k \in S : j # k => rank[j] # rank[k]
    /\ \A j, k \in S : EntryTimeOf(j) < EntryTimeOf(k) => rank[j] < rank[k]

\* C11: the profit of every row after load_data is decided by the re-pairing
\* alone, whatever profit the ledger stored: within each (date, trade_type,
\* symbol, strikes) group the i-th earliest BOT row and the i-th earliest SLD
\* row (by entry_time) both get (BOT.entry_price - SLD.entry_price) * 100, and
\* every row without a partner (rank beyond min(#BOT, #SLD), or entry_action
\* neither BOT nor SLD) gets 0.
C11_RePairing ==
    Loaded =>
        /\ Len(df) = Len(csv_lines) - 1
        /\ \A i \in DOMAIN df : df[i].line = i
        /\ \A i \in DOMAIN df :
              LET B == SideOf(i, "BOT")
                  S == SideOf(i, "SLD")
                  n == IF Cardinality(B) <= Cardinality(S) THEN Cardinality(B)
                       ELSE Cardinality(S)
              IN  IF ActionOf(i) \notin {"BOT", "SLD"} THEN df[i].profit = <<0>>
                  ELSE IF \E j \in B \cup S : j < i THEN TRUE
                  ELSE \E rb \in [B -> 1..Cardinality(B)] :
                       \E rs \in [S -> 1..Cardinality(S)] :
                          /\ Chronological(rb, B)
                          /\ Chronological(rs, S)
                          /\ \A b \in B :
                                df[b].profit =
                                    IF rb[b] > n THEN <<0>>
                                    ELSE LET s == CHOOSE x \in S : rs[x] = rb[b]
                                         IN  <<(PriceOf(b) - PriceOf(s)) * 100>>
                          /\ \A s \in S :
                                df[s].profit =
                                    IF rs[s] > n THEN <<0>>
                                    ELSE LET b == CHOOSE x \in B : rb[x] = rs[s]
                                         IN  <<(PriceOf(b) - PriceOf(s)) * 100>>

\* a ledger of two BOT and two SLD rows of one group, written out of time order,
\* one of them with a stored profit of 450.00: the earliest BOT (1.00) pairs
\* with the earliest SLD (3.50) and the later BOT (3.50) with the later SLD (1.00)
C11_Witness ==
    /\ Loaded
    /\ Len(df) = 4
    /\ \A i \in 1..4 : GroupKey(i) = GroupKey(1)
    /\ ActionOf(1) = "BOT" /\ ActionOf(2) = "BOT"
    /\ ActionOf(3) = "SLD" /\ ActionOf(4) = "SLD"
    /\ EntryTimeOf(1) > EntryTimeOf(2)
    /\ EntryTimeOf(3) > EntryTimeOf(4)
    /\ Cell(LineOf(4), "profit") = "450.00"
    /\ df[2].profit = <<-25000>> /\ df[4].profit = <<-25000>>
    /\ df[1].profit = <<25000>> /\ df[3].profit = <<25000>>

====
